---- MODULE Spec2Model ----
(***************************************************************************)
(* Model of scan_repos.py: GitleaksScanner and main().                     *)
(*                                                                         *)
(* One run of main(): dependency check, workspace setup, the clone/scan    *)
(* loop over REPOSITORIES, the final report, the console summary, the      *)
(* retention prompt and cleanup, together with the two except clauses of   *)
(* main().  The outcomes of the child processes, the content of the        *)
(* scanner's report file, the user's answer and the arrival of an          *)
(* interrupt are inputs chosen by the environment.                         *)
(*                                                                         *)
(* A KeyboardInterrupt can arrive between any two statements of the try    *)
(* body of main(), so the statements that change the scanner's fields are  *)
(* separate steps.  Removal of the workspace (shutil.rmtree) is taken to   *)
(* succeed, and no second interrupt arrives inside an except clause.       *)
(***************************************************************************)
EXTENDS Integers, Sequences, FiniteSets, TLC

\* Number of configured repositories (REPOSITORIES holds 6; the model keeps
\* the list short and numbers its entries 1..NumRepos in configured order).
NumRepos == 3

\* Longest JSON array the scanner's report may hold in the model.
MaxFindings == 6

\* findings[:5]: the number of findings listed on the console.
SummaryLimit == 5

VARIABLES
    pc,                 \* position of the single thread of control
    missing_tools,      \* check_dependencies: the tools shutil.which did not find
    temp_dir,           \* self.temp_dir is set (not None)
    ws_exists,          \* the workspace directory exists on disk
    ws_created,         \* a workspace directory was created at some time
    i,                  \* index of the current repo_url in REPOSITORIES
    cloned,             \* the repositories git cloned with exit code 0, in order
    last_clone,         \* outcome of the git clone the loop has just tested
    git_calls,          \* number of git clone processes invoked so far
    gitleaks_calls,     \* number of gitleaks processes invoked so far
    scan_outcome,       \* outcome of the gitleaks process of the scan in progress
    report_file,        \* content of the report file of the scan in progress
    findings,           \* scan_repository local
    findings_count,     \* scan_repository local
    result_data,        \* the dict scan_repository is about to return (<<>> = none)
    result,             \* run_scan local: the dict scan_repository returned
    results,            \* self.results
    total_findings,     \* self.total_findings
    repos_with_secrets, \* self.repos_with_secrets
    final_report,       \* final_report.txt (<<>> = not written)
    summary,            \* what print_summary printed (<<>> = nothing)
    success,            \* main's success: "unset", "true" or "false"
    prompted,           \* the retention prompt was shown
    keep_files,         \* the user's answer started with 'y'
    exit_code           \* -1 while running, else the value main returned

vars == <<pc, missing_tools, temp_dir, ws_exists, ws_created, i, cloned,
          last_clone, git_calls, gitleaks_calls, scan_outcome, report_file, findings, findings_count,
          result_data, result, results, total_findings, repos_with_secrets,
          final_report, summary, success, prompted, keep_files, exit_code>>

----------------------------------------------------------------------------
\* Inputs

required_tools == {"gitleaks", "git"}

\* subprocess.run(['git','clone',...], timeout=300): exit 0, exit != 0,
\* TimeoutExpired, any other exception.
CloneOutcomes == {"ok", "nonzero", "timeout", "exception"}

\* subprocess.run(['gitleaks','git',...], timeout=600).
ScanOutcomes == {"exit0", "nonzero", "timeout", "exception"}

Min(a, b) == IF a <= b THEN a ELSE b

\* A parsed JSON value: its type and, for the types Python gives a length,
\* its elements.  An array element is a JSON object ("obj") or anything else
\* ("other"); an object's elements are its keys, a string's its characters.
EmptyList == [type |-> "array", elems |-> <<>>]

\* The arrays of the model: up to MaxFindings objects, of which at most one
\* is replaced by an element that is not an object.
ArrayElems ==
    { [k \in 1..n |-> "obj"] : n \in 0..MaxFindings }
    \cup { [k \in 1..n |-> IF k = at THEN "other" ELSE "obj"] :
             n \in 1..MaxFindings, at \in 1..MaxFindings }

JsonValues ==
    { [type |-> "array", elems |-> s] : s \in ArrayElems }
    \cup { [type |-> t, elems |-> <<>>] : t \in {"null", "number", "bool"} }
    \cup { [type |-> "object", elems |-> s] : s \in {<<>>, <<"key">>} }
    \cup { [type |-> "string", elems |-> s] : s \in {<<>>, <<"char">>} }

\* What the scanner left at report_file: nothing, a zero-length file, text
\* that is not JSON, bytes that are not text in the locale's encoding, or a
\* JSON document.
ReportFiles ==
    { [state |-> s, value |-> EmptyList] :
        s \in {"absent", "empty", "badjson", "undecodable"} }
    \cup { [state |-> "json", value |-> v] : v \in JsonValues }

NoReportFile == [state |-> "absent", value |-> EmptyList]

----------------------------------------------------------------------------
\* Python operations used by scan_repository

\* len(x) raises TypeError for None, numbers and booleans.
HasLen(v) == v.type \in {"array", "object", "string"}

\* Mutant: the count stops at the findings the console lists.
PyLen_ListedOnly(v) == Min(Len(v.elems), SummaryLimit)

\* len(findings), line 120.
PyLen(v) == Len(v.elems)

\* x[:5] of a list or a string; a dict cannot be sliced.
Sliceable(v) == v.type \in {"array", "string"}

Slice(v, n) == SubSeq(v.elems, 1, Min(n, Len(v.elems)))

\* finding.get(...) exists on dicts only.
HasGet(e) == e = "obj"

\* Mutant: the listing prints the elements without calling get on them.
ListingRaises_SliceOnly(v) == ~Sliceable(v)

\* for finding in findings[:5]: finding.get(...) -- lines 141-146.  Raises
\* when findings cannot be sliced or a listed element has no get method.
ListingRaises(v) ==
    \/ ~Sliceable(v)
    \/ \E k \in DOMAIN Slice(v, SummaryLimit) : ~HasGet(Slice(v, SummaryLimit)[k])

\* Lines 113-122: what reading the report leaves in findings and
\* findings_count, or that an exception left the inner try statement.
\* Only json.JSONDecodeError is caught there; it is raised by json.load
\* before findings is assigned.  The file is opened in text mode: bytes that
\* do not decode make f.read() inside json.load raise UnicodeDecodeError, and
\* len() of a value without a length raises TypeError; neither is a
\* JSONDecodeError, so both leave through the outer except Exception.
LoadReport(rf) ==
    IF rf.state \in {"absent", "empty"}
    THEN [raised |-> FALSE, findings |-> EmptyList, findings_count |-> 0]
    ELSE IF rf.state = "badjson"
    THEN [raised |-> FALSE, findings |-> EmptyList, findings_count |-> 0]
    ELSE IF rf.state = "undecodable"
    THEN [raised |-> TRUE, findings |-> EmptyList, findings_count |-> 0]
    ELSE IF HasLen(rf.value)
    THEN [raised |-> FALSE, findings |-> rf.value,
          findings_count |-> PyLen(rf.value)]
    ELSE [raised |-> TRUE, findings |-> rf.value, findings_count |-> 0]

\* Lines 124-133: the dict of a scan whose process returned.
ScanSuccess(name, f, n) ==
    [repo_name |-> name, findings |-> f, findings_count |-> n,
     success |-> TRUE, error |-> "None"]

\* Mutant: the except clauses return the success flag of the try branch.
ScanFailure_MarkedSuccess(name, msg) ==
    [repo_name |-> name, findings |-> EmptyList, findings_count |-> 0,
     success |-> TRUE, error |-> msg]

\* Lines 158-183: the dict of a scan that timed out or raised.
ScanFailure(name, msg) ==
    [repo_name |-> name, findings |-> EmptyList, findings_count |-> 0,
     success |-> FALSE, error |-> msg]

TimeoutMsg == "Timeout scanning"
ErrorMsg == "Error scanning"

\* Mutant: the exit code of git is not looked at.
CloneSucceeded_IgnoresExitCode(outcome) == outcome \in {"ok", "nonzero"}

\* Line 82: result.returncode == 0.
CloneSucceeded(outcome) == outcome = "ok"

\* Mutant: the check fails only when every tool is missing.
DependenciesOk_UnlessAllMissing(missing) == missing # required_tools

\* Line 50: if missing_tools: ... return False.
DependenciesOk(missing) == missing = {}

\* Mutant: the total counts repositories, not findings.
AddFindings_AddsOne(total, n) == total + 1

\* Line 152: self.total_findings += findings_count.
AddFindings(total, n) == total + n

\* Mutant: the keep_files test is inverted.
cleanup_Inverted(keep) ==
    IF temp_dir /\ ws_exists
    THEN (IF keep THEN FALSE ELSE ws_exists)
    ELSE ws_exists

\* Lines 221-229: cleanup(keep_files); the value of ws_exists afterwards.
cleanup(keep) ==
    IF temp_dir /\ ws_exists
    THEN (IF keep THEN ws_exists ELSE FALSE)
    ELSE ws_exists

\* Line 194: len([r for r in self.results if r['success']]).
SuccessfullyScanned(rs) == Cardinality({ k \in DOMAIN rs : rs[k].success })

\* Mutant: the report lists every repository that was scanned successfully.
HasFindings_IfScanned(r) == r.success

\* Line 203: if result['findings_count'] > 0.
HasFindings(r) == r.findings_count > 0

\* Lines 202-208: one block per result with findings, in the order of
\* self.results.
ReportBlocks(rs) ==
    LET listed == SelectSeq(rs, HasFindings)
    IN  [k \in 1..Len(listed) |->
            [repo_name |-> listed[k].repo_name,
             findings_count |-> listed[k].findings_count]]

----------------------------------------------------------------------------
Init ==
    /\ pc = "check_deps"
    /\ missing_tools = {}
    /\ temp_dir = FALSE
    /\ ws_exists = FALSE
    /\ ws_created = FALSE
    /\ i = 1
    /\ cloned = <<>>
    /\ last_clone = "none"
    /\ git_calls = 0
    /\ gitleaks_calls = 0
    /\ scan_outcome = "none"
    /\ report_file = NoReportFile
    /\ findings = EmptyList
    /\ findings_count = 0
    /\ result_data = <<>>
    /\ result = <<>>
    /\ results = <<>>
    /\ total_findings = 0
    /\ repos_with_secrets = 0
    /\ final_report = <<>>
    /\ summary = <<>>
    /\ success = "unset"
    /\ prompted = FALSE
    /\ keep_files = FALSE
    /\ exit_code = -1

scanner_fields == <<results, total_findings, repos_with_secrets>>
scan_locals == <<scan_outcome, report_file, findings, findings_count, result_data>>
workspace == <<temp_dir, ws_exists, ws_created>>
outputs == <<final_report, summary>>
main_locals == <<success, prompted, keep_files, exit_code>>
clones == <<cloned, last_clone, git_calls>>

\* run_scan, lines 238-240: check_dependencies (lines 41-61).
CheckDependencies ==
    /\ pc = "check_deps"
    /\ \E missing \in SUBSET required_tools :
         /\ missing_tools' = missing
         /\ IF DependenciesOk(missing)
            THEN pc' = "setup" /\ success' = success
            ELSE pc' = "main_return" /\ success' = "false"
    /\ UNCHANGED <<workspace, i, clones, gitleaks_calls, scan_locals, result,
                   scanner_fields, outputs, prompted, keep_files,
                   exit_code>>

\* setup_temp_directory, lines 63-66.
SetupTempDirectory ==
    /\ pc = "setup"
    /\ temp_dir' = TRUE
    /\ ws_exists' = TRUE
    /\ ws_created' = TRUE
    /\ pc' = "loop"
    /\ UNCHANGED <<missing_tools, i, clones, gitleaks_calls, scan_locals,
                   result, scanner_fields, outputs, main_locals>>

\* run_scan, lines 249-253: clone_repository (lines 68-93) and the test of
\* its first return value; a failed clone continues with the next URL.
CloneRepository ==
    /\ pc = "loop"
    /\ i <= NumRepos
    /\ \E outcome \in CloneOutcomes :
         /\ git_calls' = git_calls + 1
         /\ last_clone' = outcome
         /\ cloned' = IF outcome = "ok" THEN Append(cloned, i) ELSE cloned
         /\ IF CloneSucceeded(outcome)
            THEN pc' = "scan_invoke" /\ i' = i
            ELSE pc' = "loop" /\ i' = i + 1
    /\ UNCHANGED <<missing_tools, workspace, gitleaks_calls, scan_locals, result,
                   scanner_fields, outputs, main_locals>>

\* scan_repository, lines 104-110: the gitleaks process.  A timeout or any
\* other exception goes to the except clauses (lines 158-183); the exit code
\* of a process that returned is not looked at.
InvokeGitleaks ==
    /\ pc = "scan_invoke"
    /\ gitleaks_calls' = gitleaks_calls + 1
    /\ \E outcome \in ScanOutcomes, rf \in ReportFiles :
         /\ scan_outcome' = outcome
         /\ report_file' = rf
         /\ IF outcome = "timeout"
            THEN result_data' = <<ScanFailure(i, TimeoutMsg)>> /\ pc' = "scan_return"
            ELSE IF outcome = "exception"
            THEN result_data' = <<ScanFailure(i, ErrorMsg)>> /\ pc' = "scan_return"
            ELSE result_data' = result_data /\ pc' = "scan_parse"
    /\ UNCHANGED <<missing_tools, workspace, i, clones, findings,
                   findings_count, result, scanner_fields, outputs, main_locals>>

\* scan_repository, lines 112-133: read the report, build result_data.
ParseReport ==
    /\ pc = "scan_parse"
    /\ LET r == LoadReport(report_file)
       IN  IF r.raised
           THEN /\ findings' = r.findings
                /\ findings_count' = r.findings_count
                /\ result_data' = <<ScanFailure(i, ErrorMsg)>>
                /\ pc' = "scan_return"
           ELSE /\ findings' = r.findings
                /\ findings_count' = r.findings_count
                /\ result_data' = <<ScanSuccess(i, r.findings, r.findings_count)>>
                /\ pc' = "scan_listing"
    /\ UNCHANGED <<missing_tools, workspace, i, clones, gitleaks_calls,
                   scan_outcome, report_file, result, scanner_fields, outputs,
                   main_locals>>

\* Mutant: repos_with_secrets is incremented before the findings are listed.
ListFindings_CountsFirst ==
    /\ pc = "scan_listing"
    /\ IF findings_count > 0
       THEN /\ repos_with_secrets' = repos_with_secrets + 1
            /\ IF ListingRaises(findings)
               THEN /\ result_data' = <<ScanFailure(i, ErrorMsg)>>
                    /\ pc' = "scan_return"
               ELSE /\ result_data' = result_data
                    /\ pc' = "scan_add_total"
       ELSE /\ result_data' = result_data
            /\ repos_with_secrets' = repos_with_secrets
            /\ pc' = "scan_return"
    /\ UNCHANGED <<missing_tools, workspace, i, clones, gitleaks_calls,
                   scan_outcome, report_file, findings, findings_count, result,
                   results, total_findings, outputs, main_locals>>

\* scan_repository, lines 135-149 and 153-154: the console listing of the
\* first findings, or the "Clean" line.
ListFindings ==
    /\ pc = "scan_listing"
    /\ IF findings_count > 0
       THEN IF ListingRaises(findings)
            THEN /\ result_data' = <<ScanFailure(i, ErrorMsg)>>
                 /\ pc' = "scan_return"
            ELSE /\ result_data' = result_data
                 /\ pc' = "scan_inc_repos"
       ELSE /\ result_data' = result_data
            /\ pc' = "scan_return"
    /\ UNCHANGED <<missing_tools, workspace, i, clones, gitleaks_calls,
                   scan_outcome, report_file, findings, findings_count, result,
                   scanner_fields, outputs, main_locals>>

\* scan_repository, line 151: self.repos_with_secrets += 1.
IncReposWithSecrets ==
    /\ pc = "scan_inc_repos"
    /\ repos_with_secrets' = repos_with_secrets + 1
    /\ pc' = "scan_add_total"
    /\ UNCHANGED <<missing_tools, workspace, i, clones, gitleaks_calls,
                   scan_locals, result, results, total_findings, outputs,
                   main_locals>>

\* scan_repository, line 152: self.total_findings += findings_count.
AddTotalFindings ==
    /\ pc = "scan_add_total"
    /\ total_findings' = AddFindings(total_findings, findings_count)
    /\ pc' = "scan_return"
    /\ UNCHANGED <<missing_tools, workspace, i, clones, gitleaks_calls,
                   scan_locals, result, results, repos_with_secrets, outputs,
                   main_locals>>

\* scan_repository, lines 156, 161, 174: return; run_scan line 256 binds the
\* returned dict to result.  The locals of scan_repository end with the call.
ReturnResult ==
    /\ pc = "scan_return"
    /\ result' = result_data
    /\ report_file' = NoReportFile
    /\ findings' = EmptyList
    /\ findings_count' = 0
    /\ result_data' = <<>>
    /\ pc' = "append"
    /\ UNCHANGED <<missing_tools, workspace, i, clones, gitleaks_calls,
                   scan_outcome, scanner_fields, outputs, main_locals>>

\* run_scan, lines 257-258 and the loop's step to the next URL.
AppendResult ==
    /\ pc = "append"
    /\ results' = results \o result
    /\ i' = i + 1
    /\ pc' = "loop"
    /\ scan_outcome' = "none"
    /\ result' = <<>>
    /\ UNCHANGED <<missing_tools, workspace, clones, gitleaks_calls,
                   report_file, findings, findings_count, result_data,
                   total_findings, repos_with_secrets, outputs, main_locals>>

\* run_scan, line 249: REPOSITORIES is exhausted.
LoopDone ==
    /\ pc = "loop"
    /\ i > NumRepos
    /\ last_clone' = "none"
    /\ pc' = "report"
    /\ UNCHANGED <<missing_tools, workspace, i, cloned, git_calls,
                   gitleaks_calls, scan_locals, result, scanner_fields, outputs,
                   main_locals>>

\* generate_final_report, lines 185-214.
FinalReport ==
    [total_repositories |-> NumRepos,
     successfully_scanned |-> SuccessfullyScanned(results),
     repos_with_secrets |-> repos_with_secrets,
     total_findings |-> total_findings,
     blocks |-> IF repos_with_secrets > 0 THEN ReportBlocks(results) ELSE <<>>,
     clean |-> ~(repos_with_secrets > 0)]

GenerateFinalReport ==
    /\ pc = "report"
    /\ final_report' = <<FinalReport>>
    /\ pc' = "summary"
    /\ UNCHANGED <<missing_tools, workspace, i, clones, gitleaks_calls,
                   scan_locals, result, scanner_fields, summary, main_locals>>

\* print_summary, lines 268-292; run_scan then returns True (line 266).
PrintSummary ==
    /\ pc = "summary"
    /\ summary' = <<[successfully_scanned |-> SuccessfullyScanned(results),
                     repos_with_secrets |-> repos_with_secrets,
                     total_findings |-> total_findings,
                     clean |-> repos_with_secrets = 0]>>
    /\ success' = "true"
    /\ pc' = "prompt"
    /\ UNCHANGED <<missing_tools, workspace, i, clones, gitleaks_calls,
                   scan_locals, result, scanner_fields, final_report, prompted,
                   keep_files, exit_code>>

\* main, line 304: the retention prompt; answer.lower().startswith('y').
RetentionPrompt ==
    /\ pc = "prompt"
    /\ prompted' = TRUE
    /\ \E starts_with_y \in BOOLEAN : keep_files' = starts_with_y
    /\ pc' = "cleanup"
    /\ UNCHANGED <<missing_tools, workspace, i, clones, gitleaks_calls,
                   scan_locals, result, scanner_fields, outputs, success,
                   exit_code>>

\* main, line 305: scanner.cleanup(keep_files=keep_files).
CleanupAfterPrompt ==
    /\ pc = "cleanup"
    /\ ws_exists' = cleanup(keep_files)
    /\ pc' = "main_return"
    /\ UNCHANGED <<missing_tools, temp_dir, ws_created, i, clones,
                   gitleaks_calls, scan_locals, result, scanner_fields, outputs,
                   main_locals>>

\* main, line 307: return 0 if success else 1.
MainReturn ==
    /\ pc = "main_return"
    /\ exit_code' = IF success = "true" THEN 0 ELSE 1
    /\ pc' = "exited"
    /\ UNCHANGED <<missing_tools, workspace, i, clones, gitleaks_calls,
                   scan_locals, result, scanner_fields, outputs, success,
                   prompted, keep_files>>

\* Positions inside the try statement of main (lines 298-307).
TryBody ==
    {"check_deps", "setup", "loop", "scan_invoke", "scan_parse", "scan_listing",
     "scan_inc_repos", "scan_add_total", "scan_return", "append", "report",
     "summary", "prompt", "cleanup", "main_return"}

\* Positions at which an exception other than KeyboardInterrupt can leave
\* run_scan or main's try body: mkdtemp fails before it creates anything,
\* the report file cannot be written, input() meets end of file.
\* clone_repository and scan_repository catch Exception themselves.
Uncaught == {"setup", "report", "prompt"}

\* The user interrupts: KeyboardInterrupt is raised at the current statement
\* and unwinds scan_repository and run_scan, whose locals end with them.
Interrupt ==
    /\ pc \in TryBody
    /\ pc' = "except_interrupt"
    /\ last_clone' = "none"
    /\ scan_outcome' = "none"
    /\ report_file' = NoReportFile
    /\ findings' = EmptyList
    /\ findings_count' = 0
    /\ result_data' = <<>>
    /\ result' = <<>>
    /\ UNCHANGED <<missing_tools, workspace, i, cloned, git_calls,
                   gitleaks_calls, scanner_fields, outputs, success, prompted,
                   keep_files, exit_code>>

\* An unexpected exception reaches main.
UnexpectedError ==
    /\ pc \in Uncaught
    /\ pc' = "except_exception"
    /\ UNCHANGED <<missing_tools, workspace, i, clones, gitleaks_calls,
                   scan_locals, result, scanner_fields, outputs, success,
                   prompted, keep_files, exit_code>>

\* main, lines 309-312.
ExceptKeyboardInterrupt ==
    /\ pc = "except_interrupt"
    /\ ws_exists' = cleanup(FALSE)
    /\ exit_code' = 1
    /\ pc' = "exited"
    /\ UNCHANGED <<missing_tools, temp_dir, ws_created, i, clones,
                   gitleaks_calls, scan_locals, result, scanner_fields, outputs,
                   success, prompted, keep_files>>

\* main, lines 313-316.
ExceptException ==
    /\ pc = "except_exception"
    /\ ws_exists' = cleanup(FALSE)
    /\ exit_code' = 1
    /\ pc' = "exited"
    /\ UNCHANGED <<missing_tools, temp_dir, ws_created, i, clones,
                   gitleaks_calls, scan_locals, result, scanner_fields, outputs,
                   success, prompted, keep_files>>

Next ==
    \/ CheckDependencies
    \/ SetupTempDirectory
    \/ CloneRepository
    \/ InvokeGitleaks
    \/ ParseReport
    \/ ListFindings
    \/ IncReposWithSecrets
    \/ AddTotalFindings
    \/ ReturnResult
    \/ AppendResult
    \/ LoopDone
    \/ GenerateFinalReport
    \/ PrintSummary
    \/ RetentionPrompt
    \/ CleanupAfterPrompt
    \/ MainReturn
    \/ Interrupt
    \/ UnexpectedError
    \/ ExceptKeyboardInterrupt
    \/ ExceptException

Spec == Init /\ [][Next]_vars

----------------------------------------------------------------------------
\* What the properties below derive from the results sequence.

RECURSIVE SumFindings(_)
SumFindings(rs) ==
    IF rs = <<>> THEN 0 ELSE Head(rs).findings_count + SumFindings(Tail(rs))

WithFindings(rs) == { k \in DOMAIN rs : rs[k].findings_count > 0 }

CountersAgree(rs) ==
    /\ total_findings = SumFindings(rs)
    /\ repos_with_secrets = Cardinality(WithFindings(rs))

ScanReturned == scan_outcome \in {"exit0", "nonzero"}
ScanFailed == scan_outcome \in {"timeout", "exception"}

\* A dict of the failure branch: success false, a message, no findings.
IsFailureOf(r, name) ==
    /\ r.repo_name = name
    /\ r.success = FALSE
    /\ r.error # "None"
    /\ r.findings = EmptyList
    /\ r.findings_count = 0

\* The run was abandoned through one of main's except clauses.
Abandoned ==
    \/ pc \in {"except_interrupt", "except_exception"}
    \/ pc = "exited" /\ exit_code = 1 /\ missing_tools = {}

----------------------------------------------------------------------------
\* C1: when run_scan completes, there is exactly one ScanResult per
\* repository whose clone succeeded (in order), whatever the clone and scan
\* outcomes were; a failed or timed-out clone appends no ScanResult, changes
\* neither counter and moves the loop to the next URL without ending the run.
C1_ResultsMatchClones ==
    /\ [](success = "true" =>
            /\ Len(results) = Len(cloned)
            /\ \A k \in DOMAIN results : results[k].repo_name = cloned[k])
    /\ [][(pc = "loop" /\ git_calls' = git_calls + 1 /\ last_clone' # "ok") =>
            /\ results' = results
            /\ total_findings' = total_findings
            /\ repos_with_secrets' = repos_with_secrets
            /\ cloned' = cloned
            /\ pc' = "loop"
            /\ i' = i + 1
            /\ exit_code' = -1]_vars

\* run_scan completed after a clone failed, a scan succeeded and a scan failed.
C1_Witness ==
    /\ success = "true"
    /\ Len(cloned) = 2
    /\ Len(results) = 2
    /\ git_calls = NumRepos
    /\ results[1].success
    /\ ~results[2].success

C3_MalformedReportTolerated ==
    (pc = "scan_return" /\ ScanReturned /\ report_file.state # "json") =>
        /\ result_data = <<[repo_name |-> i, findings |-> EmptyList,
                            findings_count |-> 0, success |-> TRUE,
                            error |-> "None"]>>
        /\ CountersAgree(results)

\* C4: a gitleaks process that times out or raises yields a dict with
\* success false, a message, no findings and count 0; the counters do not
\* change; run_scan appends that dict and goes on with the next repository;
\* the report's "Successfully Scanned" leaves it out.
C4_ScanFailureRecorded ==
    /\ []((pc \in {"scan_return", "append"} /\ ScanFailed) =>
            /\ CountersAgree(results)
            /\ LET pending == IF pc = "append" THEN result ELSE result_data
               IN  Len(pending) = 1 /\ IsFailureOf(pending[1], i))
    /\ [](ScanFailed => pc \in {"scan_return", "append"})
    /\ [][(pc = "append" /\ ScanFailed /\ pc' # "except_interrupt") =>
            /\ Len(results') = Len(results) + 1
            /\ IsFailureOf(results'[Len(results')], i)
            /\ SubSeq(results', 1, Len(results)) = results
            /\ total_findings' = total_findings
            /\ repos_with_secrets' = repos_with_secrets
            /\ pc' = "loop"
            /\ i' = i + 1
            /\ exit_code' = -1]_vars
    /\ [](final_report # <<>> =>
            final_report[1].successfully_scanned =
                Len(results) - Cardinality({ k \in DOMAIN results :
                                               results[k].error # "None" }))

\* The report was written after a scan timed out and a later scan succeeded.
C4_Witness ==
    /\ final_report # <<>>
    /\ Len(results) >= 2
    /\ results[1].error = "Timeout scanning"
    /\ results[2].success
    /\ final_report[1].successfully_scanned = Len(results) - 1

\* C5: with a required executable missing the run ends with exit code 1 and
\* never creates a workspace, starts a git or gitleaks process, writes the
\* final report or shows the retention prompt.
C5_MissingToolAborts ==
    missing_tools # {} =>
        /\ ~ws_created
        /\ ~ws_exists
        /\ git_calls = 0
        /\ gitleaks_calls = 0
        /\ final_report = <<>>
        /\ summary = <<>>
        /\ ~prompted
        /\ pc \in {"main_return", "except_interrupt", "exited"}
        /\ pc = "exited" => exit_code = 1

\* main returned 1 because git alone was missing.
C5_Witness ==
    /\ pc = "exited"
    /\ missing_tools = {"git"}
    /\ exit_code = 1
    /\ success = "false"

C7_CountIsLength ==
    /\ \A k \in DOMAIN results :
         results[k].findings_count = Len(results[k].findings.elems)
    /\ \A k \in DOMAIN result :
         result[k].findings_count = Len(result[k].findings.elems)
    /\ pc = "scan_return" =>
         \A k \in DOMAIN result_data :
            result_data[k].findings_count = Len(result_data[k].findings.elems)

\* A returned dict holds more findings than the console lists, the last of
\* them not an object.
C7_Witness ==
    /\ pc = "append"
    /\ result # <<>>
    /\ result[1].success
    /\ result[1].findings_count = MaxFindings
    /\ result[1].findings.elems[MaxFindings] = "other"

\* C8: the final report holds one block for exactly the ScanResults with
\* findings_count > 0, in configured order, and the clean statement exactly
\* when there is none; a repository whose clone failed, whose scan failed or
\* that scanned clean has no block.  For A clean, B not cloned, C with 2
\* findings: successfully scanned 2, with secrets 1, total 2, only C listed.
C8_ReportListsExactlyFindings ==
    final_report # <<>> =>
        LET R == final_report[1]
            idx == WithFindings(results)
        IN  /\ Len(R.blocks) = Cardinality(idx)
            /\ \A k \in idx :
                 LET b == Cardinality({ j \in idx : j <= k })
                 IN  /\ R.blocks[b].repo_name = results[k].repo_name
                     /\ R.blocks[b].findings_count = results[k].findings_count
            /\ \A a, b \in DOMAIN R.blocks :
                 a < b => R.blocks[a].repo_name < R.blocks[b].repo_name
            /\ R.clean <=> idx = {}
            /\ \A b \in DOMAIN R.blocks :
                 /\ \E c \in DOMAIN cloned : cloned[c] = R.blocks[b].repo_name
                 /\ \E k \in DOMAIN results :
                      /\ results[k].repo_name = R.blocks[b].repo_name
                      /\ results[k].success
                      /\ results[k].findings_count > 0
            /\ R.successfully_scanned =
                 Cardinality({ k \in DOMAIN results : results[k].success })
            /\ (/\ cloned = <<1, 3>>
                /\ Len(results) = 2
                /\ results[1].success /\ results[1].findings_count = 0
                /\ results[2].success /\ results[2].findings_count = 2)
               => /\ R.successfully_scanned = 2
                  /\ R.repos_with_secrets = 1
                  /\ R.total_findings = 2
                  /\ R.blocks = <<[repo_name |-> 3, findings_count |-> 2]>>
                  /\ ~R.clean

\* The report of the run in which A scanned clean, B was not cloned and C had
\* 2 findings.
C8_Witness ==
    /\ final_report # <<>>
    /\ git_calls = 3
    /\ cloned = <<1, 3>>
    /\ Len(results) = 2
    /\ results[1].success /\ results[1].findings_count = 0
    /\ results[2].success /\ results[2].findings_count = 2

\* C9 as stated: no state in which scan_repository is still executing, or
\* its dict is not yet appended, has counters that already reflect that
\* repository.
C9_CountersOnlyAfterReturn ==
    pc \in {"scan_invoke", "scan_parse", "scan_listing", "scan_inc_repos",
            "scan_add_total", "scan_return", "append"} => CountersAgree(results)

\* C9 amended: the results sequence is changed only by run_scan's append of
\* the dict scan_repository has returned.  The counters are changed only
\* inside scan_repository (lines 151-152), after the gitleaks process has
\* returned and the first findings were listed without error, and before the
\* dict is returned; so from line 151 until the append the counters reflect a
\* repository whose ScanResult is not yet recorded.
C9_MutationPoints ==
    [][/\ results' # results =>
            /\ pc = "append"
            /\ Len(result) = 1
            /\ results' = Append(results, result[1])
       /\ repos_with_secrets' # repos_with_secrets =>
            /\ pc = "scan_inc_repos"
            /\ ScanReturned
            /\ results' = results
            /\ total_findings' = total_findings
            /\ repos_with_secrets' = repos_with_secrets + 1
            /\ Len(result_data) = 1 /\ result_data[1].success
            /\ result_data[1].findings_count > 0
            /\ result = <<>>
       /\ total_findings' # total_findings =>
            /\ pc = "scan_add_total"
            /\ ScanReturned
            /\ results' = results
            /\ repos_with_secrets' = repos_with_secrets
            /\ total_findings' = total_findings + result_data[1].findings_count
            /\ result = <<>>]_vars

\* scan_repository is about to return and total_findings already counts its
\* findings.
C9_Witness ==
    /\ pc = "scan_return"
    /\ result = <<>>
    /\ total_findings > SumFindings(results)
    /\ repos_with_secrets > Cardinality(WithFindings(results))

\* A parsed report that is not an array of objects as far as the listing
\* looks: a value without a length, a non-empty object or string, or a
\* non-empty array with a non-object among its first five elements.
NotArrayOfObjects(v) ==
    \/ v.type \in {"null", "number", "bool"}
    \/ v.type \in {"object", "string"} /\ Len(v.elems) > 0
    \/ /\ v.type = "array"
       /\ \E k \in DOMAIN v.elems : k <= 5 /\ v.elems[k] # "obj"

\* C10: a report that is valid JSON but not an array of objects (as above)
\* makes scan_repository build a dict with success false, a message, no
\* findings and count 0, and leaves both counters as they were.
C10_WrongShapeIsFailure ==
    (/\ pc = "scan_return"
     /\ ScanReturned
     /\ report_file.state = "json"
     /\ NotArrayOfObjects(report_file.value)) =>
        /\ Len(result_data) = 1
        /\ IsFailureOf(result_data[1], i)
        /\ CountersAgree(results)

\* The report is an array of 6 whose fifth element is not an object, and the
\* scan of the second repository ended in the failure branch.
C10_Witness ==
    /\ pc = "scan_return"
    /\ ScanReturned
    /\ i = 2
    /\ report_file.state = "json"
    /\ report_file.value.type = "array"
    /\ Len(report_file.value.elems) = 6
    /\ report_file.value.elems[5] = "other"
    /\ result_data # <<>>
    /\ ~result_data[1].success

====
